---- MODULE Spec2Model ----
(***************************************************************************)
(* The Factory Method example of design-patterns/creational/factory.ts:    *)
(* the classes TransportCreator, TruckCreator, ShipCreator, Truck and      *)
(* Ship, the function clientCode, and the top-level script.                *)
(*                                                                         *)
(* A string is a sequence of one-character strings, so that the template   *)
(* literal of someOperation is a real concatenation and "contains" is a    *)
(* real substring search.  Standard output is the sequence of the lines    *)
(* written by console.log.  The heap is the sequence of the objects        *)
(* allocated by `new`; a reference is an index into it, 0 is undefined.    *)
(* The call stack is a sequence of frames, the last one being the running  *)
(* one; ret is the value handed back by the last return.  history is the   *)
(* log of calls, returns, allocations and writes made so far.              *)
(***************************************************************************)
EXTENDS Integers, Sequences, FiniteSets

VARIABLES mode, pc, heap, stack, ret, stdout, status, ncalls, history

vars == << mode, pc, heap, stack, ret, stdout, status, ncalls, history >>

(* Bound of the free client: the number of calls it makes. *)
MaxCalls == 3

(* ---------------------------------------------------------------------- *)
(* String literals of the source                                          *)
(* ---------------------------------------------------------------------- *)

(* PREFIX with the class name as in the pattern's textbook wording *)
PREFIX_Creator ==
    << "C", "r", "e", "a", "t", "o", "r", ":", " ", "T", "h", "e", " ", "s", "a", "m",
       "e", " ", "c", "r", "e", "a", "t", "o", "r", "'", "s", " ", "c", "o", "d", "e",
       " ", "h", "a", "s", " ", "j", "u", "s", "t", " ", "w", "o", "r", "k", "e", "d",
       " ", "w", "i", "t", "h", " " >>

(* factory.ts:30, the fixed part of the template literal *)
PREFIX ==
    << "T", "r", "a", "n", "s", "p", "o", "r", "t", "C", "r", "e", "a", "t", "o", "r",
       ":", " ", "T", "h", "e", " ", "s", "a", "m", "e", " ", "c", "r", "e", "a", "t",
       "o", "r", "'", "s", " ", "c", "o", "d", "e", " ", "h", "a", "s", " ", "j", "u",
       "s", "t", " ", "w", "o", "r", "k", "e", "d", " ", "w", "i", "t", "h", " " >>

(* factory.ts:69 *)
TRUCK_DESC ==
    << "{", "T", "r", "a", "n", "s", "p", "o", "r", "t", " ", "b", "y", " ", "l", "a",
       "n", "d", "}" >>

(* factory.ts:75 *)
SHIP_DESC ==
    << "{", "T", "r", "a", "n", "s", "p", "o", "r", "t", " ", "b", "y", " ", "s", "e",
       "a", "}" >>

(* factory.ts:87 *)
CLIENT_LINE ==
    << "C", "l", "i", "e", "n", "t", ":", " ", "I", "'", "m", " ", "n", "o", "t", " ",
       "a", "w", "a", "r", "e", " ", "o", "f", " ", "t", "h", "e", " ", "c", "r", "e",
       "a", "t", "o", "r", "'", "s", " ", "c", "l", "a", "s", "s", ",", " ", "b", "u",
       "t", " ", "i", "t", " ", "s", "t", "i", "l", "l", " ", "w", "o", "r", "k", "s",
       "." >>

(* factory.ts:97 *)
APP_TRUCK ==
    << "A", "p", "p", ":", " ", "L", "a", "u", "n", "c", "h", "e", "d", " ", "w", "i",
       "t", "h", " ", "t", "h", "e", " ", "T", "r", "u", "c", "k", "C", "r", "e", "a",
       "t", "o", "r", "." >>

(* factory.ts:101 *)
APP_SHIP ==
    << "A", "p", "p", ":", " ", "L", "a", "u", "n", "c", "h", "e", "d", " ", "w", "i",
       "t", "h", " ", "t", "h", "e", " ", "S", "h", "i", "p", "C", "r", "e", "a", "t",
       "o", "r", "." >>

(* factory.ts:99, the empty string *)
EMPTY_LINE == << >>

(* ---------------------------------------------------------------------- *)
(* Classes and objects                                                    *)
(* ---------------------------------------------------------------------- *)

CreatorClasses == { "TruckCreator", "ShipCreator" }

(* JavaScript values: undefined, a reference to an object (an index into *)
(* the heap, 0 where there is none), a string                            *)
Undefined == [ t |-> "undefined", ref |-> 0, str |-> << >> ]

Ref(r) == [ t |-> "object", ref |-> r, str |-> << >> ]

Str(s) == [ t |-> "string", ref |-> 0, str |-> s ]

(* ToString, as applied by a template literal and by console.log *)
ToString(v) ==
    IF v.t = "string" THEN v.str
    ELSE IF v.t = "undefined" THEN << "u", "n", "d", "e", "f", "i", "n", "e", "d" >>
    ELSE << "[", "o", "b", "j", "e", "c", "t", " ", "O", "b", "j", "e", "c", "t", "]" >>

(* console.log(s): one more line on standard output *)
console_log(out, v) == Append(out, ToString(v))

(* `${x}` appended to the fixed text of the template literal *)
Template(v) == PREFIX \o ToString(v)

(* new C(): the classes declare no fields, an object is its class *)
New(cls) == [ cls |-> cls ]

Top == stack[Len(stack)]

Pop == SubSeq(stack, 1, Len(stack) - 1)

Push(f) == Append(stack, f)

(* the running frame with its pc replaced *)
Goto(l) == [ stack EXCEPT ![Len(stack)] = [ @ EXCEPT !.pc = l ] ]

Running(fn, l) ==
    /\ status = "running"
    /\ Len(stack) > 0
    /\ Top.fn = fn
    /\ Top.pc = l

(* an entry of the history: what happened, in or to which function or    *)
(* class, on which object, and the reference or the string returned or   *)
(* written                                                               *)
Event(e, fn, obj, val) ==
    [ e |-> e, fn |-> fn, obj |-> obj, res |-> val.ref, val |-> val.str ]

Creators == { i \in 1..Len(heap) : heap[i].cls \in CreatorClasses }

(* ---------------------------------------------------------------------- *)
(* Products                                                               *)
(* ---------------------------------------------------------------------- *)

(* Truck.operation() marking every Truck but the first one made *)
Truck_operation_Numbered ==
    /\ Running("operation", "body")
    /\ heap[Top.this].cls = "Truck"
    /\ LET first == \A i \in 1..(Top.this - 1) : heap[i].cls # "Truck"
           desc  == IF first THEN TRUCK_DESC ELSE TRUCK_DESC \o << "'" >>
       IN  /\ ret' = Str(desc)
           /\ history' = Append(history, Event("ret", "operation", Top.this, Str(desc)))
    /\ stack' = Pop
    /\ UNCHANGED << mode, pc, heap, stdout, status, ncalls >>

(* Truck.operation(): return '{Transport by land}' *)
Truck_operation ==
    /\ Running("operation", "body")
    /\ heap[Top.this].cls = "Truck"
    /\ ret' = Str(TRUCK_DESC)
    /\ stack' = Pop
    /\ history' = Append(history, Event("ret", "operation", Top.this, Str(TRUCK_DESC)))
    /\ UNCHANGED << mode, pc, heap, stdout, status, ncalls >>

(* Ship.operation() with the description of Truck copied over *)
Ship_operation_Land ==
    /\ Running("operation", "body")
    /\ heap[Top.this].cls = "Ship"
    /\ ret' = Str(TRUCK_DESC)
    /\ stack' = Pop
    /\ history' = Append(history, Event("ret", "operation", Top.this, Str(TRUCK_DESC)))
    /\ UNCHANGED << mode, pc, heap, stdout, status, ncalls >>

(* Ship.operation(): return '{Transport by sea}' *)
Ship_operation ==
    /\ Running("operation", "body")
    /\ heap[Top.this].cls = "Ship"
    /\ ret' = Str(SHIP_DESC)
    /\ stack' = Pop
    /\ history' = Append(history, Event("ret", "operation", Top.this, Str(SHIP_DESC)))
    /\ UNCHANGED << mode, pc, heap, stdout, status, ncalls >>

(* ---------------------------------------------------------------------- *)
(* Creators                                                               *)
(* ---------------------------------------------------------------------- *)

(* TruckCreator.factoryMethod() keeping a count of its products in a field *)
TruckCreator_factoryMethod_Counting ==
    /\ Running("factoryMethod", "body")
    /\ heap[Top.this].cls = "TruckCreator"
    /\ heap' = [ Append(heap, New("Truck")) EXCEPT
                   ![Top.this] = [ cls |-> "TruckCreator", made |-> Len(heap) + 1 ] ]
    /\ ret' = Ref(Len(heap) + 1)
    /\ stack' = Pop
    /\ history' = history \o << Event("new", "Truck", Len(heap) + 1, Undefined),
                                Event("ret", "factoryMethod", Top.this, Ref(Len(heap) + 1)) >>
    /\ UNCHANGED << mode, pc, stdout, status, ncalls >>

(* TruckCreator.factoryMethod() without its return statement *)
TruckCreator_factoryMethod_NoReturn ==
    /\ Running("factoryMethod", "body")
    /\ heap[Top.this].cls = "TruckCreator"
    /\ heap' = Append(heap, New("Truck"))
    /\ ret' = Undefined
    /\ stack' = Pop
    /\ history' = history \o << Event("new", "Truck", Len(heap) + 1, Undefined),
                                Event("ret", "factoryMethod", Top.this, Undefined) >>
    /\ UNCHANGED << mode, pc, stdout, status, ncalls >>

(* TruckCreator.factoryMethod(): return new Truck() *)
TruckCreator_factoryMethod ==
    /\ Running("factoryMethod", "body")
    /\ heap[Top.this].cls = "TruckCreator"
    /\ heap' = Append(heap, New("Truck"))
    /\ ret' = Ref(Len(heap) + 1)
    /\ stack' = Pop
    /\ history' = history \o << Event("new", "Truck", Len(heap) + 1, Undefined),
                                Event("ret", "factoryMethod", Top.this, Ref(Len(heap) + 1)) >>
    /\ UNCHANGED << mode, pc, stdout, status, ncalls >>

(* ShipCreator.factoryMethod() returning new Truck() *)
ShipCreator_factoryMethod_Truck ==
    /\ Running("factoryMethod", "body")
    /\ heap[Top.this].cls = "ShipCreator"
    /\ heap' = Append(heap, New("Truck"))
    /\ ret' = Ref(Len(heap) + 1)
    /\ stack' = Pop
    /\ history' = history \o << Event("new", "Truck", Len(heap) + 1, Undefined),
                                Event("ret", "factoryMethod", Top.this, Ref(Len(heap) + 1)) >>
    /\ UNCHANGED << mode, pc, stdout, status, ncalls >>

(* ShipCreator.factoryMethod() handing out one shared Ship once it exists *)
ShipCreator_factoryMethod_Cached ==
    /\ Running("factoryMethod", "body")
    /\ heap[Top.this].cls = "ShipCreator"
    /\ LET ships == { i \in 1..Len(heap) : heap[i].cls = "Ship" }
       IN  IF ships = { }
           THEN /\ heap' = Append(heap, New("Ship"))
                /\ ret' = Ref(Len(heap) + 1)
                /\ history' = history \o
                      << Event("new", "Ship", Len(heap) + 1, Undefined),
                         Event("ret", "factoryMethod", Top.this, Ref(Len(heap) + 1)) >>
           ELSE /\ heap' = heap
                /\ ret' = Ref(CHOOSE i \in ships : TRUE)
                /\ history' = Append(history,
                      Event("ret", "factoryMethod", Top.this, Ref(CHOOSE i \in ships : TRUE)))
    /\ stack' = Pop
    /\ UNCHANGED << mode, pc, stdout, status, ncalls >>

(* ShipCreator.factoryMethod(): return new Ship() *)
ShipCreator_factoryMethod ==
    /\ Running("factoryMethod", "body")
    /\ heap[Top.this].cls = "ShipCreator"
    /\ heap' = Append(heap, New("Ship"))
    /\ ret' = Ref(Len(heap) + 1)
    /\ stack' = Pop
    /\ history' = history \o << Event("new", "Ship", Len(heap) + 1, Undefined),
                                Event("ret", "factoryMethod", Top.this, Ref(Len(heap) + 1)) >>
    /\ UNCHANGED << mode, pc, stdout, status, ncalls >>

(* someOperation, line 28: this.factoryMethod() is called; which override *)
(* runs is decided by the class of this                                   *)
someOperation_L28 ==
    /\ Running("someOperation", "L28")
    /\ stack' = Append(Goto("L30"), [ fn |-> "factoryMethod", pc |-> "body",
                                      this |-> Top.this ])
    /\ history' = Append(history, Event("call", "factoryMethod", Top.this, Undefined))
    /\ UNCHANGED << mode, pc, heap, ret, stdout, status, ncalls >>

(* someOperation, lines 28-30: transport is bound to the value returned by *)
(* the factory method and transport.operation() is called; a method call   *)
(* on undefined throws a TypeError, which nothing catches                  *)
someOperation_L30 ==
    /\ Running("someOperation", "L30")
    /\ IF ret.t # "object"
       THEN /\ status' = "threw"
            /\ stack' = << >>
            /\ history' = Append(history, Event("throw", "someOperation", Top.this, Undefined))
       ELSE /\ status' = status
            /\ stack' = Append(Goto("L30r"), [ fn |-> "operation", pc |-> "body",
                                               this |-> ret.ref ])
            /\ history' = Append(history, Event("call", "operation", ret.ref, Undefined))
    /\ UNCHANGED << mode, pc, heap, ret, stdout, ncalls >>

(* someOperation writing its result to standard output before returning it *)
someOperation_return_Logging ==
    /\ Running("someOperation", "L30r")
    /\ stdout' = console_log(stdout, Str(Template(ret)))
    /\ ret' = Str(Template(ret))
    /\ stack' = Pop
    /\ history' = history \o << Event("log", "someOperation", 0, Str(Template(ret))),
                                Event("ret", "someOperation", Top.this, Str(Template(ret))) >>
    /\ UNCHANGED << mode, pc, heap, status, ncalls >>

(* someOperation, line 30: the template literal is built from the string  *)
(* operation() returned, and returned                                     *)
someOperation_return ==
    /\ Running("someOperation", "L30r")
    /\ ret' = Str(Template(ret))
    /\ stack' = Pop
    /\ history' = Append(history, Event("ret", "someOperation", Top.this, Str(Template(ret))))
    /\ UNCHANGED << mode, pc, heap, stdout, status, ncalls >>

(* ---------------------------------------------------------------------- *)
(* clientCode                                                             *)
(* ---------------------------------------------------------------------- *)

(* clientCode without its first console.log *)
clientCode_L86_Silent ==
    /\ Running("clientCode", "L86")
    /\ stack' = Goto("L89")
    /\ UNCHANGED << mode, pc, heap, ret, stdout, status, ncalls, history >>

(* lines 86-88: console.log("Client: ...") *)
clientCode_L86 ==
    /\ Running("clientCode", "L86")
    /\ stdout' = console_log(stdout, Str(CLIENT_LINE))
    /\ stack' = Goto("L89")
    /\ history' = Append(history, Event("log", "clientCode", 0, Str(CLIENT_LINE)))
    /\ UNCHANGED << mode, pc, heap, ret, status, ncalls >>

(* line 89: the argument of console.log is evaluated: creator.someOperation() *)
clientCode_L89 ==
    /\ Running("clientCode", "L89")
    /\ stack' = Append(Goto("L89r"), [ fn |-> "someOperation", pc |-> "L28",
                                       this |-> Top.creator ])
    /\ history' = Append(history, Event("call", "someOperation", Top.creator, Undefined))
    /\ UNCHANGED << mode, pc, heap, ret, stdout, status, ncalls >>

(* lines 89-91: console.log of the returned string, then the function ends *)
clientCode_return ==
    /\ Running("clientCode", "L89r")
    /\ stdout' = console_log(stdout, ret)
    /\ stack' = Pop
    /\ ret' = Undefined
    /\ history' = history \o << Event("log", "clientCode", 0, Str(ToString(ret))),
                                Event("ret", "clientCode", Top.creator, Undefined) >>
    /\ UNCHANGED << mode, pc, heap, status, ncalls >>

(* a call clientCode(new C()): the creator is constructed, then passed *)
CallClientCodeNew(cls) ==
    /\ heap' = Append(heap, New(cls))
    /\ stack' = Push([ fn |-> "clientCode", pc |-> "L86", creator |-> Len(heap) + 1 ])
    /\ history' = history \o << Event("new", cls, Len(heap) + 1, Undefined),
                                Event("call", "clientCode", Len(heap) + 1, Undefined) >>

(* ---------------------------------------------------------------------- *)
(* The top-level script, lines 97-102                                     *)
(* ---------------------------------------------------------------------- *)

AtTopLevel(l) ==
    /\ status = "running"
    /\ mode = "script"
    /\ stack = << >>
    /\ pc = l

(* line 97 *)
ScriptL97 ==
    /\ AtTopLevel("L97")
    /\ stdout' = console_log(stdout, Str(APP_TRUCK))
    /\ history' = Append(history, Event("log", "script", 0, Str(APP_TRUCK)))
    /\ pc' = "L98"
    /\ UNCHANGED << mode, heap, stack, ret, status, ncalls >>

(* line 98 *)
ScriptL98 ==
    /\ AtTopLevel("L98")
    /\ CallClientCodeNew("TruckCreator")
    /\ pc' = "L99"
    /\ UNCHANGED << mode, ret, stdout, status, ncalls >>

(* the script without the empty line between its two cases *)
ScriptL99_Skip ==
    /\ AtTopLevel("L99")
    /\ pc' = "L101"
    /\ UNCHANGED << mode, heap, stack, ret, stdout, status, ncalls, history >>

(* line 99 *)
ScriptL99 ==
    /\ AtTopLevel("L99")
    /\ stdout' = console_log(stdout, Str(EMPTY_LINE))
    /\ history' = Append(history, Event("log", "script", 0, Str(EMPTY_LINE)))
    /\ pc' = "L101"
    /\ UNCHANGED << mode, heap, stack, ret, status, ncalls >>

(* line 101 *)
ScriptL101 ==
    /\ AtTopLevel("L101")
    /\ stdout' = console_log(stdout, Str(APP_SHIP))
    /\ history' = Append(history, Event("log", "script", 0, Str(APP_SHIP)))
    /\ pc' = "L102"
    /\ UNCHANGED << mode, heap, stack, ret, status, ncalls >>

(* line 102 *)
ScriptL102 ==
    /\ AtTopLevel("L102")
    /\ CallClientCodeNew("ShipCreator")
    /\ pc' = "end"
    /\ UNCHANGED << mode, ret, stdout, status, ncalls >>

(* ---------------------------------------------------------------------- *)
(* A free client of the same classes: it calls clientCode and             *)
(* someOperation, in any order, on creators it has used before and on     *)
(* creators it constructs for the call                                    *)
(* ---------------------------------------------------------------------- *)

Idle ==
    /\ status = "running"
    /\ mode = "client"
    /\ stack = << >>
    /\ ncalls < MaxCalls

(* clientCode(creator), creator constructed earlier *)
ClientClientCode ==
    /\ Idle
    /\ \E c \in Creators :
          /\ stack' = Push([ fn |-> "clientCode", pc |-> "L86", creator |-> c ])
          /\ history' = Append(history, Event("call", "clientCode", c, Undefined))
    /\ ncalls' = ncalls + 1
    /\ UNCHANGED << mode, pc, heap, ret, stdout, status >>

(* clientCode(new TruckCreator()), clientCode(new ShipCreator()) *)
ClientClientCodeNew ==
    /\ Idle
    /\ \E cls \in CreatorClasses : CallClientCodeNew(cls)
    /\ ncalls' = ncalls + 1
    /\ UNCHANGED << mode, pc, ret, stdout, status >>

(* creator.someOperation(), creator constructed earlier *)
ClientSomeOperation ==
    /\ Idle
    /\ \E c \in Creators :
          /\ stack' = Push([ fn |-> "someOperation", pc |-> "L28", this |-> c ])
          /\ history' = Append(history, Event("call", "someOperation", c, Undefined))
    /\ ncalls' = ncalls + 1
    /\ UNCHANGED << mode, pc, heap, ret, stdout, status >>

(* new TruckCreator().someOperation(), new ShipCreator().someOperation() *)
ClientSomeOperationNew ==
    /\ Idle
    /\ \E cls \in CreatorClasses :
          /\ heap' = Append(heap, New(cls))
          /\ stack' = Push([ fn |-> "someOperation", pc |-> "L28", this |-> Len(heap) + 1 ])
          /\ history' = history \o << Event("new", cls, Len(heap) + 1, Undefined),
                                      Event("call", "someOperation", Len(heap) + 1, Undefined) >>
    /\ ncalls' = ncalls + 1
    /\ UNCHANGED << mode, pc, ret, stdout, status >>

(* ---------------------------------------------------------------------- *)
(* Specification                                                          *)
(* ---------------------------------------------------------------------- *)

Init ==
    /\ mode \in { "script", "client" }
    /\ pc = IF mode = "script" THEN "L97" ELSE "client"
    /\ heap = << >>
    /\ stack = << >>
    /\ ret = Undefined
    /\ stdout = << >>
    /\ status = "running"
    /\ ncalls = 0
    /\ history = << >>

Next ==
    \/ ScriptL97
    \/ ScriptL98
    \/ ScriptL99
    \/ ScriptL101
    \/ ScriptL102
    \/ ClientClientCode
    \/ ClientClientCodeNew
    \/ ClientSomeOperation
    \/ ClientSomeOperationNew
    \/ clientCode_L86
    \/ clientCode_L89
    \/ clientCode_return
    \/ someOperation_L28
    \/ someOperation_L30
    \/ someOperation_return
    \/ TruckCreator_factoryMethod
    \/ ShipCreator_factoryMethod
    \/ Truck_operation
    \/ Ship_operation

Spec == Init /\ [][Next]_vars

(* the engine runs the single thread until nothing is left to run *)
FairSpec == Spec /\ WF_vars(Next)

(* the characters a string is made of: printable ASCII, without the      *)
(* double quote, the backslash and the backquote, which no string of the *)
(* source contains                                                       *)
Char ==
    { " ", "!", "#", "$", "%", "&", "'", "(", ")", "*", "+", ",", "-", ".", "/",
      "0", "1", "2", "3", "4", "5", "6", "7", "8", "9", ":", ";", "<", "=", ">", "?",
      "@", "A", "B", "C", "D", "E", "F", "G", "H", "I", "J", "K", "L", "M", "N", "O",
      "P", "Q", "R", "S", "T", "U", "V", "W", "X", "Y", "Z", "[", "]", "^", "_",
      "a", "b", "c", "d", "e", "f", "g", "h", "i", "j", "k", "l", "m", "n", "o",
      "p", "q", "r", "s", "t", "u", "v", "w", "x", "y", "z", "{", "|", "}", "~" }

(* the string the specification gives for the Truck case *)
Scenario1 ==
    << "T", "r", "a", "n", "s", "p", "o", "r", "t", "C", "r", "e", "a", "t", "o", "r",
       ":", " ", "T", "h", "e", " ", "s", "a", "m", "e", " ", "c", "r", "e", "a", "t",
       "o", "r", "'", "s", " ", "c", "o", "d", "e", " ", "h", "a", "s", " ", "j", "u",
       "s", "t", " ", "w", "o", "r", "k", "e", "d", " ", "w", "i", "t", "h", " ", "{",
       "T", "r", "a", "n", "s", "p", "o", "r", "t", " ", "b", "y", " ", "l", "a", "n",
       "d", "}" >>

(* the string the specification gives for the Ship case *)
Scenario2 ==
    << "T", "r", "a", "n", "s", "p", "o", "r", "t", "C", "r", "e", "a", "t", "o", "r",
       ":", " ", "T", "h", "e", " ", "s", "a", "m", "e", " ", "c", "r", "e", "a", "t",
       "o", "r", "'", "s", " ", "c", "o", "d", "e", " ", "h", "a", "s", " ", "j", "u",
       "s", "t", " ", "w", "o", "r", "k", "e", "d", " ", "w", "i", "t", "h", " ", "{",
       "T", "r", "a", "n", "s", "p", "o", "r", "t", " ", "b", "y", " ", "s", "e", "a",
       "}" >>

(* the description substring of the Truck variant *)
LandSubstring ==
    << "T", "r", "a", "n", "s", "p", "o", "r", "t", " ", "b", "y", " ", "l", "a", "n",
       "d" >>

(* the description substring of the Ship variant *)
SeaSubstring ==
    << "T", "r", "a", "n", "s", "p", "o", "r", "t", " ", "b", "y", " ", "s", "e", "a" >>

(* ---------------------------------------------------------------------- *)
(* Reading the history                                                    *)
(* ---------------------------------------------------------------------- *)

Idx == 1..Len(history)

IsEv(i, e, fn) == history[i].e = e /\ history[i].fn = fn

Returns(fn) == { i \in Idx : IsEv(i, "ret", fn) }

Between(i, j) == (i + 1)..(j - 1)

Calls(fn) == { i \in Idx : IsEv(i, "call", fn) }

(* where the call of fn at i returned; past the end of the history if it  *)
(* has not returned (no function of the program calls itself)             *)
EndOf(i, fn) ==
    LET after == { j \in (i + 1)..Len(history) : IsEv(j, "ret", fn) \/ history[j].e = "throw" }
    IN  IF after = { } THEN Len(history) + 1
        ELSE CHOOSE j \in after : \A k \in after : j <= k

(* the completed calls of fn: <<index of the call, index of its return>> *)
Completed(fn) ==
    { << i, EndOf(i, fn) >> :
        i \in { c \in Calls(fn) : EndOf(c, fn) <= Len(history) /\ IsEv(EndOf(c, fn), "ret", fn) } }

(* the calls of fn that have not returned yet, with the end of the history *)
Pending(fn) ==
    { << i, Len(history) + 1 >> : i \in { c \in Calls(fn) : EndOf(c, fn) > Len(history) } }

Logs(i, j) == { k \in Between(i, j) : history[k].e = "log" }

Within(i, j, e, fn) == { k \in Between(i, j) : IsEv(k, e, fn) }

ClassOf(obj) == heap[obj].cls

IsString(v) == v \in Seq(Char)

Contains(s, t) ==
    \E k \in 1..(Len(s) - Len(t) + 1) : SubSeq(s, k, k + Len(t) - 1) = t

MatchingProduct(cls) == IF cls = "TruckCreator" THEN "Truck" ELSE "Ship"

ScriptDone == mode = "script" /\ pc = "end" /\ stack = << >>

(* ---------------------------------------------------------------------- *)
(* Properties                                                             *)
(* ---------------------------------------------------------------------- *)

(* C1: every factoryMethod call that has returned, whatever calls came    *)
(* before it, returned a product of the class matching its creator: a     *)
(* Truck from a TruckCreator, a Ship from a ShipCreator.                  *)
C1_MatchingProduct ==
    \A i \in Returns("factoryMethod") :
        /\ history[i].res \in 1..Len(heap)
        /\ ClassOf(history[i].res) = MatchingProduct(ClassOf(history[i].obj))

C1_Witness ==
    /\ \E i \in Returns("factoryMethod") : ClassOf(history[i].obj) = "TruckCreator"
    /\ \E i \in Returns("factoryMethod") : ClassOf(history[i].obj) = "ShipCreator"
    /\ Cardinality(Returns("factoryMethod")) >= 3

(* C2: every someOperation call that has returned, returned the fixed     *)
(* prefix followed by the description of its variant: Scenario1 on a      *)
(* TruckCreator, Scenario2 on a ShipCreator.                              *)
C2_ExactResult ==
    \A i \in Returns("someOperation") :
        history[i].val =
            IF ClassOf(history[i].obj) = "TruckCreator" THEN Scenario1 ELSE Scenario2

C2_Witness ==
    /\ \E i \in Returns("someOperation") :
          ClassOf(history[i].obj) = "TruckCreator" /\ history[i].val = Scenario1
    /\ \E i \in Returns("someOperation") :
          ClassOf(history[i].obj) = "ShipCreator" /\ history[i].val = Scenario2

(* C4: the string someOperation returned contains the description         *)
(* substring of its own variant and not that of the other variant, and    *)
(* two calls on different variants never returned the same string.        *)
C4_OwnSubstringOnly ==
    /\ \A i \in Returns("someOperation") :
          IF ClassOf(history[i].obj) = "TruckCreator"
          THEN Contains(history[i].val, LandSubstring)
               /\ ~Contains(history[i].val, SeaSubstring)
          ELSE Contains(history[i].val, SeaSubstring)
               /\ ~Contains(history[i].val, LandSubstring)
    /\ \A i, j \in Returns("someOperation") :
          ClassOf(history[i].obj) # ClassOf(history[j].obj)
              => history[i].val # history[j].val

C4_Witness ==
    \E i, j \in Returns("someOperation") :
        /\ ClassOf(history[i].obj) = "TruckCreator"
        /\ ClassOf(history[j].obj) = "ShipCreator"
        /\ Contains(history[i].val, LandSubstring)
        /\ Contains(history[j].val, SeaSubstring)

(* C5: two someOperation calls on the same creator instance, or on two    *)
(* instances of the same variant, returned identical strings.             *)
C5_Idempotent ==
    \A i, j \in Returns("someOperation") :
        \/ history[i].obj = history[j].obj
        \/ ClassOf(history[i].obj) = ClassOf(history[j].obj)
        => history[i].val = history[j].val

C5_Witness ==
    \E i, j, k \in Returns("someOperation") :
        /\ i < j
        /\ j < k
        /\ history[i].obj = history[j].obj
        /\ history[k].obj # history[i].obj
        /\ ClassOf(history[k].obj) = ClassOf(history[i].obj)
        /\ history[i].val = history[k].val

(* C3, as stated: when the script has run to its end, standard output     *)
(* holds exactly four lines: Truck announcement, Truck result, Ship       *)
(* announcement, Ship result.                                             *)
C3_FourLines ==
    ScriptDone => stdout = << APP_TRUCK, Scenario1, APP_SHIP, Scenario2 >>

(* C3, amended: when the script has run to its end, standard output holds *)
(* exactly seven lines: Truck announcement, client line, Truck result,    *)
(* empty line, Ship announcement, client line, Ship result.               *)
C3_SevenLines ==
    ScriptDone =>
        stdout = << APP_TRUCK, CLIENT_LINE, Scenario1, EMPTY_LINE,
                    APP_SHIP, CLIENT_LINE, Scenario2 >>

C3_Witness == ScriptDone /\ Len(stdout) = 7 /\ stdout[7] = Scenario2

(* C6: no state is retained across calls: every creator on the heap is    *)
(* still exactly the object its constructor made, and one map from        *)
(* variant to string accounts for every someOperation result in the       *)
(* history, whatever number, order and variants of calls came before it.  *)
C6_NoRetainedState ==
    /\ \A i \in Idx :
          history[i].e = "new" /\ history[i].fn \in CreatorClasses
              => heap[history[i].obj] = New(history[i].fn)
    /\ \E f \in [ CreatorClasses ->
                    { history[i].val : i \in Returns("someOperation") } \cup { << >> } ] :
          \A i \in Returns("someOperation") :
              \A c \in CreatorClasses :
                  (history[i].e = "ret" /\ \E n \in Idx :
                      /\ history[n].e = "new"
                      /\ history[n].obj = history[i].obj
                      /\ history[n].fn = c)
                  => history[i].val = f[c]

C6_Witness ==
    \E i, j, k \in Returns("someOperation") :
        /\ i < j
        /\ j < k
        /\ ClassOf(history[i].obj) = ClassOf(history[k].obj)
        /\ ClassOf(history[j].obj) # ClassOf(history[i].obj)
        /\ history[i].val = history[k].val

(* C7: nothing ever throws, every someOperation call that returned,       *)
(* returned a string, and every run reaches its end: the stack empties    *)
(* for good and the script is past its last line.                         *)
C7_NoError ==
    /\ [](status = "running")
    /\ [](\A i \in Returns("someOperation") : IsString(history[i].val))
    /\ <>[](stack = << >> /\ (mode = "script" => pc = "end"))

C7_Witness ==
    /\ ScriptDone
    /\ status = "running"
    /\ Cardinality(Returns("someOperation")) = 2
    /\ \A i \in Returns("someOperation") : IsString(history[i].val)

(* C8, as stated: every someOperation call that returned wrote to         *)
(* standard output between its call and its return.                       *)
C8_PrintsBeforeReturn ==
    \A p \in Completed("someOperation") : Logs(p[1], p[2]) # { }

(* C8, amended: no someOperation call writes to standard output between   *)
(* its call and its return; the writing is done by the caller clientCode, *)
(* which writes the client line before it calls someOperation and the     *)
(* returned string after someOperation has returned.                      *)
C8_CallerPrints ==
    /\ \A p \in Completed("someOperation") \cup Pending("someOperation") :
          Logs(p[1], p[2]) = { }
    /\ \A p \in Completed("clientCode") :
          \A s \in Completed("someOperation") :
              p[1] < s[1] /\ s[2] < p[2] =>
                  /\ \E k \in Logs(p[1], s[1]) : history[k].val = CLIENT_LINE
                  /\ \E k \in Logs(s[2], p[2]) : history[k].val = history[s[2]].val

C8_Witness ==
    \E p \in Completed("clientCode") :
        \E s \in Completed("someOperation") :
            /\ p[1] < s[1]
            /\ s[2] < p[2]
            /\ Logs(s[1], s[2]) = { }
            /\ Logs(s[2], p[2]) # { }

(* the lines of the writes recorded in the history *)
LogLines ==
    LET w == SelectSeq(history, LAMBDA ev : ev.e = "log")
    IN  [ k \in 1..Len(w) |-> w[k].val ]

(* C9: standard output is written by console.log only, and every          *)
(* clientCode call that returned made exactly two writes: first the fixed *)
(* client line, then the string returned by the one someOperation call it *)
(* made, on its own creator.                                              *)
C9_TwoLines ==
    /\ stdout = LogLines
    /\ \A p \in Completed("clientCode") :
          /\ Cardinality(Logs(p[1], p[2])) = 2
          /\ Cardinality(Within(p[1], p[2], "call", "someOperation")) = 1
          /\ Cardinality(Within(p[1], p[2], "ret", "someOperation")) = 1
          /\ \E a, b \in Logs(p[1], p[2]) :
                \E c \in Within(p[1], p[2], "call", "someOperation") :
                    \E r \in Within(p[1], p[2], "ret", "someOperation") :
                        /\ a < c
                        /\ c < r
                        /\ r < b
                        /\ history[c].obj = history[p[1]].obj
                        /\ history[a].val = CLIENT_LINE
                        /\ history[b].val = history[r].val

C9_Witness ==
    \E p, q \in Completed("clientCode") :
        /\ p[2] < q[1]
        /\ ClassOf(history[p[1]].obj) # ClassOf(history[q[1]].obj)
        /\ Cardinality(Logs(p[1], p[2])) = 2
        /\ Cardinality(Logs(q[1], q[2])) = 2

(* C10: every someOperation call that returned called factoryMethod       *)
(* exactly once, on its own creator, and operation exactly once, on the   *)
(* product that call returned; that product was allocated during the      *)
(* call, and no two factoryMethod calls ever returned the same product.   *)
C10_FreshProduct ==
    /\ \A p \in Completed("someOperation") :
          /\ Cardinality(Within(p[1], p[2], "call", "factoryMethod")) = 1
          /\ Cardinality(Within(p[1], p[2], "ret", "factoryMethod")) = 1
          /\ Cardinality(Within(p[1], p[2], "call", "operation")) = 1
          /\ Cardinality(Within(p[1], p[2], "ret", "operation")) = 1
          /\ \A c \in Within(p[1], p[2], "call", "factoryMethod") :
                history[c].obj = history[p[1]].obj
          /\ \A r \in Within(p[1], p[2], "ret", "factoryMethod") :
                /\ \A o \in Within(p[1], p[2], "call", "operation") :
                      r < o /\ history[o].obj = history[r].res
                /\ \E n \in Between(p[1], r) :
                      /\ history[n].e = "new"
                      /\ history[n].obj = history[r].res
                /\ \A n \in 1..p[1] :
                      history[n].e = "new" => history[n].obj # history[r].res
    /\ \A i, j \in Returns("factoryMethod") :
          i # j => history[i].res # history[j].res

C10_Witness ==
    \E p, q \in Completed("someOperation") :
        /\ p[2] < q[1]
        /\ history[p[1]].obj = history[q[1]].obj
        /\ \E i \in Within(p[1], p[2], "ret", "factoryMethod") :
              \E j \in Within(q[1], q[2], "ret", "factoryMethod") :
                  history[i].res # history[j].res

====
